---- MODULE Spec2Model ----
(***************************************************************************)
(* Flask-Alcohol: the request pipeline of APIMixin (index, get, post, put, *)
(* delete, meta) over one registered model class, with the registries that *)
(* APIMixin.register builds from the class declarations.                   *)
(*                                                                         *)
(* Encoding of Python values:                                              *)
(*   - an optional scalar (request.args.get(k), __maxresults__) is a       *)
(*     sequence of length 0 (None) or 1;                                   *)
(*   - a comma-separated query parameter is the sequence of its parts, the *)
(*     empty sequence standing for an absent (or empty) parameter;         *)
(*   - a dict is a function on its keys;                                   *)
(*   - an object that was not found (None) is NoObj, the row with id 0;    *)
(*   - an exception that no handler catches ends the request with 500.     *)
(***************************************************************************)
EXTENDS Integers, Sequences, FiniteSets, TLC

VARIABLES
    db,                 \* committed table: id -> row, NoObj where there is none
    db0,                \* the table as it was when the current request began
    maxresults,         \* cls.__maxresults__ of the registered class
    defaultfields,      \* cls.__defaultfields__
    nreq,               \* requests begun so far
    route,              \* name of the handler serving the current request
    pc,                 \* position inside the handler
    user,               \* what each authorization check returns for this user
    identifier,         \* kwargs['identifier']
    json,               \* request.json
    view_args,          \* request.view_args (besides identifier)
    args,               \* request.args: only, include, defer
    qargs,              \* request.args: sort, per_page, page, id
    hookfails,          \* whether the verifying hook rejects this request
    g,                  \* flask.g: fields, failed_validation, cached_included_fields
    obj,                \* the object the handler works on
    results,            \* what _get_results returned
    log,                \* calls made while serving the current request
    resp,               \* the response
    thr,                \* requests served side by side: the state of each
    appctx,             \* the object behind flask.g in each application context
    cls,                \* the class register is called on
    app,                \* the Flask application: config, subdomain, url rules
    reg,                \* the call of register: position, locals, what it built
    prev                \* the request before the current one, when it was repeated

\* what the requests served side by side have of their own
conc == <<thr, appctx>>

\* what a call of register works on
registration == <<cls, app, reg>>

vars ==
    <<db, db0, maxresults, defaultfields, nreq, route, pc, user, identifier, json,
      view_args, args, qargs, hookfails, g, obj, results, log, resp, conc,
      registration, prev>>

-----------------------------------------------------------------------------
(* Bounds *)

MaxId == 4              \* ids a row can take
MaxReqs == 1            \* requests served in one behaviour
MaxPage == 2            \* largest page number requested
ClassMaxResults == 1    \* __maxresults__ of the class, when it sets one

-----------------------------------------------------------------------------
(* The model class: what the class body declares *)

Ids == 1 .. MaxId

AutoRoutes == {"index", "get", "post", "put", "delete", "meta"}

\* info= given at the declaration of each column; a column with a primary key or
\* index=True is indexed
ColumnDecls ==
    [id     |-> [info |-> [k \in {} |-> TRUE],        indexed |-> TRUE],
     title  |-> [info |-> [set_by |-> "json"],        indexed |-> FALSE],
     theme  |-> [info |-> [set_by |-> "json"],        indexed |-> FALSE],
     owner  |-> [info |-> [set_by |-> "url"],         indexed |-> FALSE],
     stamp  |-> [info |-> [set_by |-> "server"],      indexed |-> FALSE],
     images |-> [info |-> [set_by |-> "server"],      indexed |-> FALSE],
     secret |-> [info |-> [public |-> FALSE],         indexed |-> FALSE],
     body   |-> [info |-> [defer |-> TRUE],           indexed |-> FALSE]]

\* mapper.columns, in the listed order
Columns == <<"id", "title", "theme", "owner", "stamp", "images", "secret", "body">>

RelationshipDecls ==
    [posts   |-> [info |-> [k \in {} |-> TRUE]],
     project |-> [info |-> [public |-> TRUE]],
     author  |-> [info |-> [public |-> TRUE, defer |-> FALSE]]]

\* methods carrying _extra_cache
ExtraDecls ==
    [preview |-> [defer |-> TRUE],
     hidden  |-> [public |-> FALSE],
     summary |-> [k \in {} |-> TRUE]]

\* methods carrying _check_cache, _before_cache, _adjuster_cache, _setter_cache
CheckDecls ==
    [authorize_changes |-> {"post", "put", "delete"},
     authorize_owner   |-> {"put"},
     authorize_read    |-> {"index", "get", "meta"}]

BeforeDecls ==
    [notify |-> {"post", "put"},
     audit  |-> {"index", "post", "put", "delete", "meta"},
     verify |-> {"get", "delete"}]

\* the hooks in the order in which the class body declares them
BeforeOrder == <<"notify", "audit", "verify">>

AdjusterDecls ==
    [relevant |-> {"get", "index"}]

SetterDecls ==
    [set_theme |-> {"theme"},
     set_stamp |-> {"stamp"}]

\* attributes of the class that are neither columns nor relationships
PlainAttrs == {"get_location", "more_json"}

\* inspect.getmembers returns the members sorted by name
getmembers ==
    <<"audit", "author", "authorize_changes", "authorize_owner", "authorize_read", "body",
      "get_location", "hidden", "id", "images", "more_json", "notify", "owner",
      "posts", "preview", "project", "relevant", "secret", "set_stamp",
      "set_theme", "stamp", "summary", "theme", "title", "verify">>

-----------------------------------------------------------------------------
(* Python helpers *)

\* d.copy(); d.update(u)
Updated(d, u) ==
    [k \in DOMAIN d \cup DOMAIN u |-> IF k \in DOMAIN u THEN u[k] ELSE d[k]]

Range(s) == {s[i] : i \in DOMAIN s}

RECURSIVE SelectNames(_, _)
\* the members of seq that are in S, in the order of seq
SelectNames(seq, S) ==
    IF seq = <<>> THEN <<>>
    ELSE IF Head(seq) \in S THEN <<Head(seq)>> \o SelectNames(Tail(seq), S)
    ELSE SelectNames(Tail(seq), S)

-----------------------------------------------------------------------------
(* APIMixin: class defaults and the registries register builds *)

columndefaults == [public |-> TRUE, defer |-> FALSE, set_by |-> "None"]

relationshipdefaults == [public |-> FALSE, defer |-> TRUE, set_by |-> "None"]

ColumnNames == DOMAIN ColumnDecls

RelationshipNames == DOMAIN RelationshipDecls

ExtraInfo(n) == Updated(columndefaults, ExtraDecls[n])

\* extra fields enter __infos__ and __getters__ only when public
PublicExtras == {n \in DOMAIN ExtraDecls : ExtraInfo(n).public}

\* cls.__infos__
infos ==
    [n \in ColumnNames \cup RelationshipNames \cup PublicExtras |->
        IF n \in ColumnNames THEN Updated(columndefaults, ColumnDecls[n].info)
        ELSE IF n \in RelationshipNames
             THEN Updated(relationshipdefaults, RelationshipDecls[n].info)
        ELSE ExtraInfo(n)]

\* __defaultfields__ filled with every public field, deferred or not
RegisteredPublicFields == {n \in DOMAIN infos : infos[n].public}

\* cls.__defaultfields__ as register leaves it
RegisteredDefaultFields ==
    {n \in DOMAIN infos : infos[n].public /\ ~infos[n].defer}

\* cls.__indexedfields__
indexedfields == {n \in ColumnNames : ColumnDecls[n].indexed}

\* cls.__security__.get(route_name) or []
security(route_name) ==
    SelectNames(getmembers,
                {n \in DOMAIN CheckDecls : route_name \in CheckDecls[n]})

\* __beforereturns__ filled in the order of the class body
beforereturns_as_declared(route_name) ==
    SelectNames(BeforeOrder,
                {n \in DOMAIN BeforeDecls : route_name \in BeforeDecls[n]})

\* cls.__beforereturns__.get(route_name) or []: register appends the names as
\* inspect.getmembers yields them
beforereturns(route_name) ==
    SelectNames(getmembers,
                {n \in DOMAIN BeforeDecls : route_name \in BeforeDecls[n]})

\* cls.__adjusters__.get(route) or []
adjusters(route_name) ==
    SelectNames(getmembers,
                {n \in DOMAIN AdjusterDecls : route_name \in AdjusterDecls[n]})

\* cls.__setters__: field name -> name of the method set for it
setters ==
    [f \in UNION {SetterDecls[n] : n \in DOMAIN SetterDecls} |->
        CHOOSE n \in DOMAIN SetterDecls : f \in SetterDecls[n]]

-----------------------------------------------------------------------------
(* Objects and the table *)

EmptyDict == [k \in {} |-> TRUE]

\* st: "none" (no object), "transient" (cls()), "pending" (session.add),
\* "persistent" (loaded from the table), "deleted" (session.delete)
Obj(st, id, title) ==
    [st |-> st, id |-> id, title |-> title, theme |-> "", owner |-> "",
     stamp |-> "", images |-> ""]

NoObj == Obj("none", 0, "")

\* cls()
construct == Obj("transient", 0, "")

InitialTable ==
    [i \in Ids |->
        IF i = 1 THEN Obj("persistent", 1, "a")
        ELSE IF i = 2 THEN Obj("persistent", 2, "b")
        ELSE IF i = 3 THEN Obj("persistent", 3, "draft")
        ELSE NoObj]

RECURSIVE Ascending(_, _)
\* the ids of the rows of table from i on, in ascending order
Ascending(table, i) ==
    IF i > MaxId THEN <<>>
    ELSE IF table[i].st = "none" THEN Ascending(table, i + 1)
    ELSE <<i>> \o Ascending(table, i + 1)

\* cls.query: every row, as the sequence of ids
query(table) == Ascending(table, 1)

Reverse(s) == [i \in 1 .. Len(s) |-> s[Len(s) + 1 - i]]

\* the adjusters of the class: relevant keeps the rows that are no drafts
ApplyAdjuster(name, table, q) ==
    IF name = "relevant"
    THEN SelectNames(q, {i \in Ids : table[i].title # "draft"})
    ELSE q

RECURSIVE adjust_with(_, _, _)
adjust_with(names, table, q) ==
    IF names = <<>> THEN q
    ELSE adjust_with(Tail(names), table, ApplyAdjuster(Head(names), table, q))

adjust_query(table, q, route_name) == adjust_with(adjusters(route_name), table, q)

\* cls._get_obj_by_id: filter on the id attribute, adjust, first()
get_obj_by_id(table, ident, route_name) ==
    LET q == adjust_query(table, SelectNames(query(table), {ident}), route_name)
    IN  IF q = <<>> THEN NoObj ELSE table[Head(q)]

-----------------------------------------------------------------------------
(* The request context and the log *)

\* flask.g of a fresh application context
FreshG == [fields |-> EmptyDict, failed_validation |-> FALSE,
           cached_included_fields |-> <<>>]

\* cls.set_g
set_g(payload) == [fields |-> payload, failed_validation |-> FALSE,
                   cached_included_fields |-> <<>>]

\* one call; kind says what was passed: "none", "object" or "list"
Event(ev, name, val, ok, kind, seen) ==
    [ev |-> ev, name |-> name, val |-> val, ok |-> ok, kind |-> kind, seen |-> seen]

Call(ev) == Event(ev, "", "", TRUE, "none", <<>>)

Events(l, ev) == {i \in DOMAIN l : l[i].ev = ev}

-----------------------------------------------------------------------------
(* Authorization *)

RECURSIVE authorize_with(_, _, _, _)
\* the loop of _authorize: stops at the first check that returns false
authorize_with(names, u, resource, l) ==
    IF names = <<>> THEN [ok |-> TRUE, log |-> l]
    ELSE LET check == Head(names)
             l2 == Append(l, Event("check", check, "", u[check],
                                   IF resource.st = "none" THEN "none" ELSE "object",
                                   IF resource.st = "none" THEN <<>> ELSE <<resource>>))
         IN  IF ~u[check] THEN [ok |-> FALSE, log |-> l2]
             ELSE authorize_with(Tail(names), u, resource, l2)

\* _authorize returning after the first check, whatever it says
authorize_first_only(route_name, u, resource, l) ==
    authorize_with(SubSeq(security(route_name), 1, 1), u, resource, l)

authorize(route_name, u, resource, l) ==
    authorize_with(security(route_name), u, resource, l)

-----------------------------------------------------------------------------
(* Mutation: m is [obj, failed, log], the object, g.failed_validation and the log *)

\* the setters of the class. set_theme raises ValueError on "bad", flags the
\* failure itself on "dup", and assigns otherwise; set_stamp ignores its value
CallSetter(func, o, name, value) ==
    IF func = "set_theme"
    THEN IF value = "bad" THEN [obj |-> o, raised |-> TRUE, flagged |-> FALSE]
         ELSE IF value = "dup" THEN [obj |-> o, raised |-> FALSE, flagged |-> TRUE]
         ELSE [obj |-> [o EXCEPT !.theme = value], raised |-> FALSE, flagged |-> FALSE]
    ELSE IF func = "set_stamp"
    THEN [obj |-> [o EXCEPT !.stamp = "srv"], raised |-> FALSE, flagged |-> FALSE]
    ELSE [obj |-> o, raised |-> FALSE, flagged |-> FALSE]

\* _auto_set clearing the attribute that already has the value
auto_set_toggling(o, name, value) ==
    [obj |-> IF name \in DOMAIN o
             THEN [o EXCEPT ![name] = IF o[name] = value THEN "" ELSE value]
             ELSE o,
     raised |-> FALSE, flagged |-> FALSE]

\* _auto_set: setattr(self, name, value)
\* (the columns secret and body are not kept in the state)
auto_set(o, name, value) ==
    [obj |-> IF name \in DOMAIN o THEN [o EXCEPT ![name] = value] ELSE o,
     raised |-> FALSE, flagged |-> FALSE]

\* _set_field_value falling back to _auto_set whatever try_auto says
set_field_value_always_auto(m, name, value, try_auto) ==
    LET r == IF name \in DOMAIN setters
             THEN CallSetter(setters[name], m.obj, name, value)
             ELSE auto_set(m.obj, name, value)
    IN  [obj |-> r.obj,
         failed |-> m.failed \/ r.raised \/ r.flagged,
         log |-> Append(m.log, Event("setter", name, value,
                                     ~(r.raised \/ r.flagged),
                                     "object", <<r.obj>>))]

\* _set_field_value without the except clause setting the flag
set_field_value_uncaught(m, name, value, try_auto) ==
    IF name \notin DOMAIN setters /\ ~try_auto THEN m
    ELSE LET r == IF name \in DOMAIN setters
                  THEN CallSetter(setters[name], m.obj, name, value)
                  ELSE auto_set(m.obj, name, value)
         IN  [obj |-> r.obj,
              failed |-> m.failed \/ r.flagged,
              log |-> Append(m.log, Event("setter", name, value,
                                          ~(r.raised \/ r.flagged),
                                          "object", <<r.obj>>))]

\* _set_field_value; value "None" is the default value=None. A ValueError or
\* AssertionError of the setter is caught and sets g.failed_validation
set_field_value(m, name, value, try_auto) ==
    IF name \notin DOMAIN setters /\ ~try_auto THEN m
    ELSE LET r == IF name \in DOMAIN setters
                  THEN CallSetter(setters[name], m.obj, name, value)
                  ELSE auto_set(m.obj, name, value)
         IN  [obj |-> r.obj,
              failed |-> m.failed \/ r.raised \/ r.flagged,
              log |-> Append(m.log, Event("setter", name, value,
                                          ~(r.raised \/ r.flagged),
                                          "object", <<r.obj>>))]

RECURSIVE auto_update_from(_, _, _, _)
\* the loop of _auto_update over mapper.columns
auto_update_from(cols, m, fields, vargs) ==
    IF cols = <<>> THEN m
    ELSE LET name == Head(cols)
             set_by == infos[name].set_by
             m2 == IF set_by = "json"
                   THEN IF name \in DOMAIN fields
                        THEN set_field_value(m, name, fields[name], TRUE)
                        ELSE m
                   ELSE IF set_by = "url"
                   THEN IF name \in DOMAIN vargs
                        THEN set_field_value(m, name, vargs[name], TRUE)
                        ELSE m
                   ELSE IF set_by = "server"
                   THEN set_field_value(m, name, "None", FALSE)
                   ELSE m
         IN  auto_update_from(Tail(cols), m2, fields, vargs)

RECURSIVE auto_update_any_from(_, _, _)
\* _auto_update setting every column the payload names, whatever its set_by
auto_update_any_from(cols, m, fields) ==
    IF cols = <<>> THEN m
    ELSE auto_update_any_from(Tail(cols),
                              IF Head(cols) \in DOMAIN fields
                              THEN set_field_value(m, Head(cols), fields[Head(cols)], TRUE)
                              ELSE m,
                              fields)

auto_update_any_column(m, fields, vargs) == auto_update_any_from(Columns, m, fields)

auto_update(m, fields, vargs) == auto_update_from(Columns, m, fields, vargs)

-----------------------------------------------------------------------------
(* Pre-return hooks *)

\* the hooks of the class: verify flags a validation failure when it rejects
CallHook(name, m, rejects) ==
    IF name = "verify" /\ rejects THEN [m EXCEPT !.failed = TRUE] ELSE m

RECURSIVE before_return_with(_, _, _, _, _)
before_return_with(names, m, kind, seen, rejects) ==
    IF names = <<>> THEN m
    ELSE LET m2 == CallHook(Head(names), m, rejects)
             m3 == [m2 EXCEPT !.log =
                        Append(m2.log, Event("hook", Head(names), "", TRUE, kind, seen))]
         IN  before_return_with(Tail(names), m3, kind, seen, rejects)

\* _before_return giving up once a validation has failed
before_return_unless_failed(route_name, m, kind, seen, rejects) ==
    IF m.failed THEN m
    ELSE before_return_with(beforereturns(route_name), m, kind, seen, rejects)

before_return(route_name, m, kind, seen, rejects) ==
    before_return_with(beforereturns(route_name), m, kind, seen, rejects)

-----------------------------------------------------------------------------
(* Serializer *)

\* request.args as far as the field set goes: only, include, defer
NoArgs == [only |-> <<>>, include |-> <<>>, defer |-> <<>>]

\* the except branch of _get_included_fields: the set computed on a cache miss
included_fields(a, defaults) ==
    IF a.only # <<>>
    THEN {x \in Range(a.only) : x \in DOMAIN infos}
    ELSE LET with == IF a.include # <<>>
                     THEN defaults \cup {x \in Range(a.include) : x \in DOMAIN infos}
                     ELSE defaults
         IN  IF a.defer # <<>> THEN with \ Range(a.defer) ELSE with

\* cls.__defaultfields__ with every element the in-place operators |= and -=
\* would have put into, or taken out of, the set that fields aliases
defaultfields_updated_in_place(ctx, a, defaults) ==
    IF ctx.cached_included_fields # <<>> THEN defaults
    ELSE included_fields(a, defaults)

\* cls.__defaultfields__ after _get_included_fields: fields starts as an alias
\* of it, and fields | include_fields and fields - defer_fields build new sets
defaultfields_after(ctx, a, defaults) == defaults

\* _get_included_fields: the cached set, else the computed one
get_included_fields(ctx, a, defaults) ==
    IF ctx.cached_included_fields # <<>>
    THEN ctx.cached_included_fields[1]
    ELSE included_fields(a, defaults)

\* _get_field_value / _auto_get: a getter for the extra fields, the attribute
\* otherwise; a relationship is serialized with the default fields of its class
get_field_value(o, name) ==
    IF name \in PublicExtras THEN "extra"
    ELSE IF name \in RelationshipNames THEN "related"
    ELSE IF name \in DOMAIN o THEN o[name]
    ELSE "column"

\* more_json
more_json(o) == EmptyDict

\* as_dict(use_defaults=False) over the resolved field set
as_dict(o, fields) ==
    Updated([f \in fields |-> get_field_value(o, f)], more_json(o))

\* cls.__metas__: one entry per column, relationship and public extra field
metas ==
    [n \in DOMAIN infos |->
        [indexed |-> n \in indexedfields,
         editable |-> n \in ColumnNames /\ infos[n].set_by = "json"]]

-----------------------------------------------------------------------------
(* Query construction of index *)

NoQArgs == [sort |-> <<>>, per_page |-> <<>>, page |-> <<>>, id |-> <<>>]

\* cls.__sort__
ClassSort == <<>>

\* getattr(cls, col_name, None), as the kind of attribute found
getattr_kind(col_name) ==
    IF col_name \in ColumnNames THEN "column"
    ELSE IF col_name \in RelationshipNames THEN "relationship"
    ELSE IF col_name \in Range(getmembers) THEN "plain"
    ELSE "None"

RECURSIVE order_query(_, _, _)
\* the loop over the sort rules. A rule is the sequence of its parts, "-"
\* first when it asks for descending order. out: "ok", "400" (the early return)
\* or "raise" (IndexError on an empty rule, AttributeError on an attribute
\* that has no comparator)
order_query(rules, q, ordered) ==
    IF rules = <<>> THEN [out |-> "ok", q |-> q]
    ELSE LET rule == Head(rules) IN
         IF rule = <<>> THEN [out |-> "raise", q |-> q]
         ELSE LET desc == rule[1] = "-"
                  col_name == IF desc
                              THEN IF Len(rule) > 1 THEN rule[2] ELSE ""
                              ELSE rule[1]
                  kind == getattr_kind(col_name)
              IN  IF kind = "None" THEN [out |-> "400", q |-> q]
                  ELSE IF kind # "column" THEN [out |-> "raise", q |-> q]
                  ELSE IF col_name \notin indexedfields THEN [out |-> "400", q |-> q]
                  ELSE order_query(Tail(rules),
                                   IF ordered THEN q
                                   ELSE IF desc THEN Reverse(q) ELSE q,
                                   TRUE)

\* query.paginate(page, per_page) of the storage layer: items, total, has_next
paginate(q, page, per_page) ==
    LET first == (page - 1) * per_page + 1
        last == IF page * per_page < Len(q) THEN page * per_page ELSE Len(q)
    IN  <<SubSeq(q, first, last), Len(q), page * per_page < Len(q)>>

\* the page-size rule without the default taken from __maxresults__
page_size_no_default(per_page, limit) ==
    IF per_page # <<>> /\ limit # <<>> /\ per_page[1] > limit[1]
    THEN [out |-> "400", per_page |-> per_page]
    ELSE [out |-> "ok", per_page |-> per_page]

\* the page-size rule of _get_results: the size to paginate with (none: all
\* rows), or the early return of 400
page_size(per_page, limit) ==
    IF per_page = <<>> THEN [out |-> "ok", per_page |-> limit]
    ELSE IF limit # <<>> /\ per_page[1] > limit[1] THEN [out |-> "400", per_page |-> per_page]
    ELSE [out |-> "ok", per_page |-> per_page]

\* _get_results: raised says an exception left it, value is the tuple returned:
\* (response, 400) or (objects, total, has_next)
get_results(table, qa, limit, route_name) ==
    LET all == query(table)
        filtered == IF "id" \in indexedfields /\ qa.id # <<>>
                    THEN SelectNames(all, Range(qa.id))
                    ELSE all
        sort_rules == IF qa.sort # <<>> THEN qa.sort ELSE ClassSort
        sorted == order_query(sort_rules, filtered, FALSE)
        size == page_size(qa.per_page, limit)
        q == adjust_query(table, sorted.q, route_name)
        page == IF qa.page # <<>> THEN qa.page[1] ELSE 1
    IN  IF sorted.out = "raise" THEN [raised |-> TRUE, value |-> <<>>]
        ELSE IF sorted.out = "400" THEN [raised |-> FALSE, value |-> <<"messages", 400>>]
        ELSE IF size.out = "400" THEN [raised |-> FALSE, value |-> <<"messages", 400>>]
        ELSE IF size.per_page = <<>>
             THEN [raised |-> FALSE, value |-> <<q, Len(q), FALSE>>]
        ELSE [raised |-> FALSE, value |-> paginate(q, page, size.per_page[1])]

-----------------------------------------------------------------------------
(* The handlers: the calls each one makes, in order. A step that returns a   *)
(* response ends the handler.                                                *)

index ==
    <<"authorize", "get_results", "before_return", "check_failed", "jsonify_results">>

get ==
    <<"get_obj_by_id", "authorize", "before_return", "check_failed", "jsonify_obj">>

\* post persisting the object before the failure flag is looked at
post_commit_early ==
    <<"authorize", "construct", "auto_update", "before_return", "add", "commit",
      "check_failed", "jsonify_obj">>

post ==
    <<"authorize", "construct", "auto_update", "before_return", "check_failed",
      "add", "commit", "jsonify_obj">>

\* put with the authorization moved before the lookup
put_authorize_first ==
    <<"authorize", "get_obj_by_id", "auto_update", "before_return", "check_failed",
      "commit", "jsonify_obj">>

put ==
    <<"get_obj_by_id", "authorize", "auto_update", "before_return", "check_failed",
      "commit", "jsonify_obj">>

delete ==
    <<"get_obj_by_id", "authorize", "before_return", "check_failed",
      "delete", "commit", "jsonify_empty">>

meta ==
    <<"authorize", "before_return", "jsonify_metas">>

Handler(r) ==
    CASE r = "index" -> index
      [] r = "get" -> get
      [] r = "post" -> post
      [] r = "put" -> put
      [] r = "delete" -> delete
      [] r = "meta" -> meta
      [] OTHER -> <<>>

\* the call the current request is about to make; "none" between requests
Step == IF pc \in 1 .. Len(Handler(route)) THEN Handler(route)[pc] ELSE "none"

\* set_g is the first statement of every handler but meta
calls_set_g(r) == r # "meta"

\* status of the response built from the object: post sets 201
success_status(r) == IF r = "post" THEN 201 ELSE 200

NoResults == <<<<>>, 0, FALSE>>

Response(status, body, items, total, has_next) ==
    [status |-> status, body |-> body, results |-> items, total |-> total,
     has_next |-> has_next]

NoResp == Response(0, EmptyDict, <<>>, 0, FALSE)

\* jsonify(messages=api_messages()), status; 500 is Flask's answer to an
\* exception that leaves the handler
Error(status) == Response(status, EmptyDict, <<>>, 0, FALSE)

-----------------------------------------------------------------------------
(* Requests *)

CheckNames == DOMAIN CheckDecls

\* current users, by what the checks bound to the route return for them
Users(r) ==
    {u \in [CheckNames -> BOOLEAN] : \A c \in CheckNames : r \notin CheckDecls[c] => u[c]}

Identifiers(r) == IF r \in {"get", "put", "delete"} THEN Ids ELSE {0}

Extras ==
    [owner |-> "p", stamp |-> "p", images |-> "p", secret |-> "p", nope |-> "p"]

Payloads ==
    {EmptyDict,
     [title |-> "x"],
     [theme |-> "x"],
     [theme |-> "dup"],
     [title |-> "x", theme |-> "bad"],
     Extras,
     Updated(Extras, [theme |-> "bad"]),
     Updated(Extras, [title |-> "x", theme |-> "x"])}

Jsons(r) == IF r \in {"post", "put"} THEN Payloads ELSE {EmptyDict}

ViewArgs(r) == IF r \in {"post", "put"} THEN {EmptyDict, [owner |-> "u"]} ELSE {EmptyDict}

HookFails(r) == IF r \in {"get", "delete"} THEN BOOLEAN ELSE {FALSE}

\* only, when given, comes with the two others, which it overrides
ArgsSet ==
    {a \in [only : {<<>>, <<"secret", "title", "nope">>},
            include : {<<>>, <<"body", "secret", "posts", "hidden">>},
            defer : {<<>>, <<"title", "preview">>}] :
        a.only # <<>> => (a.include # <<>> /\ a.defer # <<>>)}

SortArgs ==
    {<<>>, <<<<"id">>>>, <<<<"-", "id">>>>, <<<<"title">>>>, <<<<"get_location">>>>,
     <<<<"nope">>>>, <<<<"-", "id">>, <<>>>>}

QArgsSet ==
    [sort : SortArgs,
     per_page : {<<>>} \cup {<<n>> : n \in 1 .. ClassMaxResults + 1},
     page : {<<>>} \cup {<<n>> : n \in 2 .. MaxPage},
     id : {<<>>, <<1, 2, MaxId>>}]

FreeIds(table) == {i \in Ids : table[i].st = "none"}

-----------------------------------------------------------------------------
(* Router: building the url rules. A string is the sequence of its           *)
(* characters; an optional string is <<>> for None and <<s>> for s; one      *)
(* letter stands for a word of a path ("i" for "<identifier>").              *)

\* bool(x) of an optional string: neither None nor ''
Truthy(x) == x # <<>> /\ x[1] # <<>>

RECURSIVE Join(_)
\* "/".join(parts)
Join(parts) ==
    IF parts = <<>> THEN <<>>
    ELSE IF Len(parts) = 1 THEN parts[1]
    ELSE parts[1] \o <<"/">> \o Join(Tail(parts))

RECURSIVE Collapse(_)
\* re.sub(r'(/)\1+', r'\1', s)
Collapse(s) ==
    IF Len(s) < 2 THEN s
    ELSE IF s[1] = "/" /\ s[2] = "/" THEN Collapse(Tail(s))
    ELSE <<s[1]>> \o Collapse(Tail(s))

RECURSIVE RStrip(_)
\* s.rstrip('/')
RStrip(s) ==
    IF s # <<>> /\ s[Len(s)] = "/" THEN RStrip(SubSeq(s, 1, Len(s) - 1)) ELSE s

RECURSIVE LStrip(_)
LStrip(s) == IF s # <<>> /\ s[1] = "/" THEN LStrip(Tail(s)) ELSE s

\* s.strip('/')
Strip(s) == RStrip(LStrip(s))

\* s.lower()
Lower(s) ==
    [i \in DOMAIN s |-> IF s[i] = "A" THEN "a" ELSE IF s[i] = "B" THEN "b" ELSE s[i]]

\* the characters of the names of the routed methods
Chars(name) ==
    CASE name = "index" -> <<"i", "n", "d", "e", "x">>
      [] name = "get" -> <<"g", "e", "t">>
      [] name = "post" -> <<"p", "o", "s", "t">>
      [] name = "put" -> <<"p", "u", "t">>
      [] name = "delete" -> <<"d", "e", "l", "e", "t", "e">>
      [] name = "meta" -> <<"m", "e", "t", "a">>
      [] name = "login" -> <<"l", "o", "g", "i", "n">>
      [] name = "me" -> <<"m", "e">>
      [] name = "x" -> <<"x">>
      [] name = "x_0" -> <<"x", "_", "0">>
      [] OTHER -> <<>>

\* "%d" % idx
Decimal(idx) ==
    IF idx < 10 THEN <<<<"0", "1", "2", "3", "4", "5", "6", "7", "8", "9">>[idx + 1]>>
    ELSE <<"1", "0">>

\* one (rule, options) pair of a _rule_cache
Rule(rule, methods, endpoint, subdomain) ==
    [rule |-> rule,
     options |-> [methods |-> methods, endpoint |-> endpoint, subdomain |-> subdomain]]

\* the _rule_cache of the routes APIMixin declares, all with is_auto=True
AutoRuleCache ==
    [index  |-> <<Rule(<<>>, "GET", <<>>, <<>>)>>,
     get    |-> <<Rule(<<"/", "i">>, "GET", <<>>, <<>>)>>,
     post   |-> <<Rule(<<>>, "POST", <<>>, <<>>)>>,
     put    |-> <<Rule(<<"/", "i">>, "PUT", <<>>, <<>>)>>,
     delete |-> <<Rule(<<"/", "i">>, "DELETE", <<>>, <<>>)>>,
     meta   |-> <<Rule(<<"/", "m">>, "GET", <<>>, <<>>)>>]

\* the _rule_cache of route(rule, **options) applied to the methods of a class
\* body: two rules on x and one on x_0, none with an endpoint
NumberedRoutes ==
    [x   |-> <<Rule(<<"/", "x">>, "GET", <<>>, <<>>), Rule(<<"/", "y">>, "GET", <<>>, <<>>)>>,
     x_0 |-> <<Rule(<<"/", "z">>, "GET", <<>>, <<>>)>>]

\* an endpoint named on me; two rules on login, the first with a subdomain
NamedRoutes ==
    [me    |-> <<Rule(<<"/", "e">>, "GET", <<<<"m", "e">>>>, <<>>)>>,
     login |-> <<Rule(<<"/", "l">>, "POST", <<>>, <<<<"s">>>>),
                 Rule(<<"/", "/", "n", "/">>, "POST", <<>>, <<>>)>>]

\* the members of a class that may carry a _rule_cache, as inspect.getmembers
\* orders them
RouteMembers ==
    <<"delete", "get", "index", "login", "me", "meta", "post", "put", "x", "x_0">>

\* value._rule_cache[name] of the member name of the class c
rule_cache(c, name) ==
    IF name \in DOMAIN c.custom THEN c.custom[name]
    ELSE IF c.kind # "Router" /\ name \in DOMAIN AutoRuleCache THEN AutoRuleCache[name]
    ELSE <<>>

\* value._rule_cache['is_auto']
is_auto(c, name) == name \notin DOMAIN c.custom

\* the condition of register without the test of __autoroutes__
routed_unfiltered(c, name) == rule_cache(c, name) # <<>>

\* the condition of register on a member: it is routed when it has a rule
\* cache and is no auto route or is one the class opts into
routed(c, name) ==
    /\ rule_cache(c, name) # <<>>
    /\ ~is_auto(c, name) \/ name \in c.autoroutes

\* Router.get_route_base
get_route_base(c) ==
    Strip(IF c.routebase # <<>> THEN c.routebase[1]
          ELSE IF c.tablename # <<>> THEN c.tablename[1]
          ELSE Lower(c.name))

\* build_rule without the re.sub that collapses the separators
build_rule_uncollapsed(c, rule, prefix) ==
    LET route_prefix == IF Truthy(c.routeprefix) THEN c.routeprefix ELSE prefix
        route_base == get_route_base(c)
        rule_parts == (IF Truthy(route_prefix) THEN <<route_prefix[1]>> ELSE <<>>)
                      \o (IF route_base # <<>> THEN <<route_base>> ELSE <<>>)
                      \o <<rule>>
    IN  RStrip(<<"/">> \o Join(rule_parts))

\* Router.build_rule
build_rule(c, rule, prefix) ==
    LET route_prefix == IF Truthy(c.routeprefix) THEN c.routeprefix ELSE prefix
        route_base == get_route_base(c)
        rule_parts == (IF Truthy(route_prefix) THEN <<route_prefix[1]>> ELSE <<>>)
                      \o (IF route_base # <<>> THEN <<route_base>> ELSE <<>>)
                      \o <<rule>>
    IN  RStrip(Collapse(<<"/">> \o Join(rule_parts)))

\* Router.build_route_name
build_route_name(c, method_name) == c.name \o <<":">> \o Chars(method_name)

\* Router.parse_options
parse_options(options) ==
    [sub |-> options.subdomain, ep |-> options.endpoint,
     options |-> [methods |-> options.methods]]

\* the endpoint register gives the rule idx of a member with n rules
endpoint_of(c, name, idx, n, ep) ==
    IF Truthy(ep) THEN ep[1]
    ELSE IF n = 1 THEN build_route_name(c, name)
    ELSE build_route_name(c, name) \o <<"_">> \o Decimal(idx)

RECURSIVE add_url_rules(_, _, _, _, _)
\* the loop of register over the rules of one member, from the rule idx on;
\* st is [subdomain, rules]: the local subdomain and the rules of the app
\* (each kept with its place in the cache and the pair it was declared with)
add_url_rules(c, name, idx, prefix, st) ==
    LET cache == rule_cache(c, name) IN
    IF idx >= Len(cache) THEN st
    ELSE LET rule == build_rule(c, cache[idx + 1].rule, prefix)
             parsed == parse_options(cache[idx + 1].options)
             subdomain == IF ~Truthy(st.subdomain) /\ Truthy(parsed.sub)
                          THEN parsed.sub ELSE st.subdomain
             endpoint == endpoint_of(c, name, idx, Len(cache), parsed.ep)
         IN  add_url_rules(c, name, idx + 1, prefix,
                 [subdomain |-> subdomain,
                  rules |-> Append(st.rules,
                                   [rule |-> rule, endpoint |-> endpoint, view |-> name,
                                    subdomain |-> subdomain,
                                    methods |-> parsed.options.methods,
                                    idx |-> idx, declared |-> cache[idx + 1]])])

\* the body of the loop of register for one member
add_member(c, name, prefix, st) ==
    IF routed(c, name) THEN add_url_rules(c, name, 0, prefix, st) ELSE st

RECURSIVE add_members(_, _, _, _)
add_members(c, names, prefix, st) ==
    IF names = <<>> THEN st
    ELSE add_members(c, Tail(names), prefix, add_member(c, Head(names), prefix, st))

\* the reserved base classes
RouterClass ==
    [kind |-> "Router", name |-> <<"R">>, routeprefix |-> <<>>, routebase |-> <<>>,
     tablename |-> <<>>, autoroutes |-> {}, custom |-> EmptyDict]

APIMixinClass ==
    [kind |-> "APIMixin", name |-> <<"M">>, routeprefix |-> <<>>, routebase |-> <<>>,
     tablename |-> <<>>, autoroutes |-> {}, custom |-> EmptyDict]

\* the model class of the requests above
ModelClass ==
    [kind |-> "model", name |-> <<"A", "b">>, routeprefix |-> <<>>, routebase |-> <<>>,
     tablename |-> <<<<"t">>>>, autoroutes |-> AutoRoutes, custom |-> EmptyDict]

\* subclasses of APIMixin, by what their bodies set
Subclasses ==
    [kind : {"model"},
     name : {<<"A", "b">>},
     routeprefix : {<<>>, <<<<"c">>>>},
     routebase : {<<>>, <<<<>>>>, <<<<"/", "b", "/">>>>, <<<<"b", "/", "/", "d">>>>},
     tablename : {<<>>, <<<<"t">>>>},
     autoroutes : {{}, {"get"}, {"index", "post", "meta"}, AutoRoutes},
     custom : {EmptyDict, NumberedRoutes, NamedRoutes}]

Classes == {RouterClass, APIMixinClass} \cup Subclasses

\* app.config['ROUTE_PREFIX']
Prefixes == {<<>>, <<<<"v">>>>, <<<<"/", "v", "/", "/", "w", "/">>>>}

\* the subdomain argument of register
Subdomains == {<<>>, <<<<"d">>>>}

\* the application before any rule is added
NewApp(prefix) == [prefix |-> prefix, subdomain |-> <<>>, rules |-> <<>>]

\* register has been called with the subdomain sub (given keeps the argument,
\* subdomain is the local variable)
Called(sub) ==
    [pc |-> "call", i |-> 0, subdomain |-> sub, built |-> FALSE, given |-> sub]

\* the whole of APIMixin.register on a subclass
registered(c, prefix, sub) ==
    LET st == add_members(c, RouteMembers, prefix, [subdomain |-> sub, rules |-> <<>>])
    IN  [app |-> [NewApp(prefix) EXCEPT !.rules = st.rules],
         reg |-> [pc |-> "done", i |-> Len(RouteMembers) + 1,
                  subdomain |-> st.subdomain, built |-> TRUE, given |-> sub]]

\* no request has been repeated
NoPrev == [taken |-> FALSE, resp |-> NoResp, db |-> InitialTable, args |-> NoArgs]

\* the threads that serve requests side by side, one request each
Threads == {"a", "b"}

\* a thread that serves no request: rec.pc is its position in the handler
Idle ==
    [route |-> "none", pc |-> 0, served |-> FALSE, identifier |-> 0,
     json |-> EmptyDict, args |-> NoArgs, obj |-> NoObj, log |-> <<>>,
     resp |-> NoResp]

\* one object behind g for every thread
context_of_process(t) == "a"

\* flask.g is a proxy to the g of the application context on top of the stack
\* of the calling thread: each request handled has its own
context_of(t) == t

-----------------------------------------------------------------------------
(* Actions *)

\* no request has been served yet
Unserved ==
    /\ db = InitialTable
    /\ db0 = InitialTable
    /\ maxresults \in {<<>>, <<ClassMaxResults>>}
    /\ defaultfields = RegisteredDefaultFields
    /\ nreq = 0
    /\ route = "none"
    /\ pc = 0
    /\ user = [c \in CheckNames |-> TRUE]
    /\ identifier = 0
    /\ json = EmptyDict
    /\ view_args = EmptyDict
    /\ args = NoArgs
    /\ qargs = NoQArgs
    /\ hookfails = FALSE
    /\ g = FreshG
    /\ obj = NoObj
    /\ results = NoResults
    /\ log = <<>>
    /\ resp = NoResp
    /\ thr = [t \in Threads |-> Idle]
    /\ appctx = [t \in Threads |-> FreshG]
    /\ prev = NoPrev

\* the model class has been registered with the application
Init ==
    /\ Unserved
    /\ cls = ModelClass
    /\ app = registered(ModelClass, <<>>, <<>>).app
    /\ reg = registered(ModelClass, <<>>, <<>>).reg

\* a request arrives and is dispatched to the handler r, which sets up g
Dispatch(r) ==
    /\ pc = 0
    /\ nreq < MaxReqs
    /\ r \in AutoRoutes
    /\ r = "post" => FreeIds(db) # {}
    /\ \E u \in Users(r), i \in Identifiers(r), j \in Jsons(r), va \in ViewArgs(r),
          hf \in HookFails(r) :
            /\ user' = u
            /\ identifier' = i
            /\ json' = j
            /\ view_args' = va
            /\ hookfails' = hf
            /\ g' = IF calls_set_g(r) THEN set_g(j) ELSE FreshG
            /\ log' = IF calls_set_g(r) THEN <<Call("set_g")>> ELSE <<>>
    /\ route' = r
    /\ pc' = 1
    /\ nreq' = nreq + 1
    /\ db0' = db
    /\ args' = NoArgs
    /\ qargs' = NoQArgs
    /\ obj' = NoObj
    /\ results' = NoResults
    /\ resp' = NoResp
    /\ UNCHANGED <<db, maxresults, defaultfields>>
    /\ UNCHANGED <<conc, registration, prev>>

\* obj = cls._get_obj_by_id(...); if obj is None: return 404
GetObjById ==
    /\ Step = "get_obj_by_id"
    /\ \E a \in ArgsSet :
        LET o == get_obj_by_id(db, identifier, route)
            fields == get_included_fields(g, a, defaultfields)
        IN  /\ args' = a
            /\ g' = [g EXCEPT !.cached_included_fields = <<fields>>]
            /\ defaultfields' = defaultfields_after(g, a, defaultfields)
            /\ obj' = o
            /\ log' = Append(log, Call("get_obj_by_id"))
            /\ IF o.st = "none"
               THEN pc' = 0 /\ resp' = Error(404)
               ELSE pc' = pc + 1 /\ resp' = resp
    /\ UNCHANGED <<db, db0, maxresults, nreq, route, user, identifier,
                   json, view_args, qargs, hookfails, results>>
    /\ UNCHANGED <<conc, registration, prev>>

\* if not cls._authorize(...): return 403
Authorize ==
    /\ Step = "authorize"
    /\ LET r == authorize(route, user, obj, log)
       IN  /\ log' = r.log
           /\ IF r.ok
              THEN pc' = pc + 1 /\ resp' = resp
              ELSE pc' = 0 /\ resp' = Error(403)
    /\ UNCHANGED <<db, db0, maxresults, defaultfields, nreq, route, user, identifier,
                   json, view_args, args, qargs, hookfails, g, obj, results>>
    /\ UNCHANGED <<conc, registration, prev>>

\* obj = cls()
Construct ==
    /\ Step = "construct"
    /\ obj' = construct
    /\ pc' = pc + 1
    /\ UNCHANGED <<db, db0, maxresults, defaultfields, nreq, route, user, identifier,
                   json, view_args, args, qargs, hookfails, g, results, log, resp>>
    /\ UNCHANGED <<conc, registration, prev>>

\* obj._auto_update()
AutoUpdate ==
    /\ Step = "auto_update"
    /\ LET m == auto_update([obj |-> obj, failed |-> g.failed_validation,
                             log |-> Append(log, Call("auto_update"))],
                            g.fields, view_args)
       IN  /\ obj' = m.obj
           /\ g' = [g EXCEPT !.failed_validation = m.failed]
           /\ log' = m.log
    /\ pc' = pc + 1
    /\ UNCHANGED <<db, db0, maxresults, defaultfields, nreq, route, user, identifier,
                   json, view_args, args, qargs, hookfails, results, resp>>
    /\ UNCHANGED <<conc, registration, prev>>

\* what each handler passes to _before_return
hook_kind(r) == IF r = "index" THEN "list" ELSE IF r = "meta" THEN "none" ELSE "object"

\* cls._before_return(route, resource)
BeforeReturn ==
    /\ Step = "before_return"
    /\ LET seen == IF route = "index"
                   THEN [i \in 1 .. Len(results[1]) |-> db[results[1][i]]]
                   ELSE IF route = "meta" THEN <<>> ELSE <<obj>>
           m == before_return(route,
                              [obj |-> obj, failed |-> g.failed_validation, log |-> log],
                              hook_kind(route), seen, hookfails)
       IN  /\ g' = [g EXCEPT !.failed_validation = m.failed]
           /\ log' = m.log
    /\ pc' = pc + 1
    /\ UNCHANGED <<db, db0, maxresults, defaultfields, nreq, route, user, identifier,
                   json, view_args, args, qargs, hookfails, obj, results, resp>>
    /\ UNCHANGED <<conc, registration, prev>>

\* if g.failed_validation: return 400
CheckFailed ==
    /\ Step = "check_failed"
    /\ log' = Append(log, Call("check_failed"))
    /\ IF g.failed_validation
       THEN pc' = 0 /\ resp' = Error(400)
       ELSE pc' = pc + 1 /\ resp' = resp
    /\ UNCHANGED <<db, db0, maxresults, defaultfields, nreq, route, user, identifier,
                   json, view_args, args, qargs, hookfails, g, obj, results>>
    /\ UNCHANGED <<conc, registration, prev>>

\* session.add(obj)
Add ==
    /\ Step = "add"
    /\ obj' = [obj EXCEPT !.st = "pending"]
    /\ log' = Append(log, Call("add"))
    /\ pc' = pc + 1
    /\ UNCHANGED <<db, db0, maxresults, defaultfields, nreq, route, user, identifier,
                   json, view_args, args, qargs, hookfails, g, results, resp>>
    /\ UNCHANGED <<conc, registration, prev>>

\* session.delete(obj)
Delete ==
    /\ Step = "delete"
    /\ obj' = [obj EXCEPT !.st = "deleted"]
    /\ log' = Append(log, Call("delete"))
    /\ pc' = pc + 1
    /\ UNCHANGED <<db, db0, maxresults, defaultfields, nreq, route, user, identifier,
                   json, view_args, args, qargs, hookfails, g, results, resp>>
    /\ UNCHANGED <<conc, registration, prev>>

\* session.commit() of the storage layer: the pending object gets the next
\* free id and is inserted, the loaded one is written back, the deleted one
\* is removed
flushed(o, table) ==
    IF o.st = "pending"
    THEN [o EXCEPT !.st = "persistent",
                   !.id = CHOOSE i \in FreeIds(table) : \A k \in FreeIds(table) : i <= k]
    ELSE o

committed(o, table) ==
    IF o.st = "pending" THEN [table EXCEPT ![flushed(o, table).id] = flushed(o, table)]
    ELSE IF o.st = "persistent" THEN [table EXCEPT ![o.id] = o]
    ELSE IF o.st = "deleted" THEN [table EXCEPT ![o.id] = NoObj]
    ELSE table

Commit ==
    /\ Step = "commit"
    /\ db' = committed(obj, db)
    /\ obj' = flushed(obj, db)
    /\ log' = Append(log, Call("commit"))
    /\ pc' = pc + 1
    /\ UNCHANGED <<db0, maxresults, defaultfields, nreq, route, user, identifier,
                   json, view_args, args, qargs, hookfails, g, results, resp>>
    /\ UNCHANGED <<conc, registration, prev>>

\* objects, total, has_next = cls._get_results(): a tuple that is no triple
\* does not unpack (ValueError), and like any exception ends in 500
GetResults ==
    /\ Step = "get_results"
    /\ \E qa \in QArgsSet, a \in ArgsSet :
        LET r == get_results(db, qa, maxresults, "index")
            unpacks == ~r.raised /\ Len(r.value) = 3
            fields == get_included_fields(g, a, defaultfields)
        IN  /\ qargs' = qa
            /\ args' = IF unpacks THEN a ELSE NoArgs
            /\ g' = IF unpacks
                    THEN [g EXCEPT !.cached_included_fields = <<fields>>]
                    ELSE g
            /\ defaultfields' = IF unpacks
                              THEN defaultfields_after(g, a, defaultfields)
                              ELSE defaultfields
            /\ results' = IF unpacks THEN r.value ELSE NoResults
            /\ log' = Append(log, Call("get_results"))
            /\ IF unpacks
               THEN pc' = pc + 1 /\ resp' = resp
               ELSE pc' = 0 /\ resp' = Error(500)
    /\ UNCHANGED <<db, db0, maxresults, nreq, route, user, identifier,
                   json, view_args, hookfails, obj>>
    /\ UNCHANGED <<conc, registration, prev>>

\* return jsonify(obj.as_dict(use_defaults=False)), with 201 for post
JsonifyObj ==
    /\ Step = "jsonify_obj"
    /\ \E a \in (IF g.cached_included_fields = <<>> THEN ArgsSet ELSE {args}) :
        LET fields == get_included_fields(g, a, defaultfields)
        IN  /\ args' = a
            /\ g' = [g EXCEPT !.cached_included_fields = <<fields>>]
            /\ defaultfields' = defaultfields_after(g, a, defaultfields)
            /\ resp' = Response(success_status(route), as_dict(obj, fields), <<>>, 0, FALSE)
    /\ log' = Append(log, Call("as_dict"))
    /\ pc' = 0
    /\ UNCHANGED <<db, db0, maxresults, nreq, route, user, identifier,
                   json, view_args, qargs, hookfails, obj, results>>
    /\ UNCHANGED <<conc, registration, prev>>

\* return jsonify(results=[x.as_dict(...) for x in objects], total, has_next)
JsonifyResults ==
    /\ Step = "jsonify_results"
    /\ LET fields == get_included_fields(g, args, defaultfields)
       IN  resp' = Response(200, EmptyDict,
                            [i \in 1 .. Len(results[1]) |-> as_dict(db[results[1][i]], fields)],
                            results[2], results[3])
    /\ log' = Append(log, Call("as_dict"))
    /\ pc' = 0
    /\ UNCHANGED <<db, db0, maxresults, defaultfields, nreq, route, user, identifier,
                   json, view_args, args, qargs, hookfails, g, obj, results>>
    /\ UNCHANGED <<conc, registration, prev>>

\* return jsonify(), 204
JsonifyEmpty ==
    /\ Step = "jsonify_empty"
    /\ resp' = Response(204, EmptyDict, <<>>, 0, FALSE)
    /\ pc' = 0
    /\ UNCHANGED <<db, db0, maxresults, defaultfields, nreq, route, user, identifier,
                   json, view_args, args, qargs, hookfails, g, obj, results, log>>
    /\ UNCHANGED <<conc, registration, prev>>

\* return jsonify(cls.__metas__)
JsonifyMetas ==
    /\ Step = "jsonify_metas"
    /\ resp' = Response(200, metas, <<>>, 0, FALSE)
    /\ pc' = 0
    /\ UNCHANGED <<db, db0, maxresults, defaultfields, nreq, route, user, identifier,
                   json, view_args, args, qargs, hookfails, g, obj, results, log>>
    /\ UNCHANGED <<conc, registration, prev>>

Next ==
    \/ \E r \in AutoRoutes : Dispatch(r)
    \/ GetObjById
    \/ Authorize
    \/ Construct
    \/ AutoUpdate
    \/ BeforeReturn
    \/ CheckFailed
    \/ Add
    \/ Delete
    \/ Commit
    \/ GetResults
    \/ JsonifyObj
    \/ JsonifyResults
    \/ JsonifyEmpty
    \/ JsonifyMetas

Spec == Init /\ [][Next]_vars

-----------------------------------------------------------------------------
(* The same put issued twice in succession                                  *)

\* the client sends the put it was just answered once more: same user, same
\* identifier, same payload; the handler starts with cls.set_g()
Repeat ==
    /\ pc = 0
    /\ nreq > 0
    /\ route = "put"
    /\ ~prev.taken
    /\ prev' = [taken |-> TRUE, resp |-> resp, db |-> db, args |-> args]
    /\ g' = set_g(json)
    /\ log' = <<Call("set_g")>>
    /\ pc' = 1
    /\ nreq' = nreq + 1
    /\ db0' = db
    /\ args' = NoArgs
    /\ obj' = NoObj
    /\ results' = NoResults
    /\ resp' = NoResp
    /\ UNCHANGED <<db, maxresults, defaultfields, route, user, identifier, json,
                   view_args, qargs, hookfails, conc, registration>>

PutTwiceNext ==
    \/ Dispatch("put")
    \/ Repeat
    \/ GetObjById
    \/ Authorize
    \/ AutoUpdate
    \/ BeforeReturn
    \/ CheckFailed
    \/ Commit
    \/ JsonifyObj

PutTwiceSpec == Init /\ [][PutTwiceNext]_vars

-----------------------------------------------------------------------------
(* Requests served side by side: the handlers get and put, each thread at   *)
(* its own position, every interleaving of their calls                      *)

ThreadRoutes == {"get", "put"}

ThreadPayloads == {[title |-> "x"], [title |-> "y", theme |-> "bad"], [theme |-> "dup"]}

ThreadArgs == {a \in ArgsSet : a = NoArgs \/ a.only # <<>>}

\* every check lets the user through
Anyone == [c \in CheckNames |-> TRUE]

StepOf(t) ==
    IF thr[t].pc \in 1 .. Len(Handler(thr[t].route))
    THEN Handler(thr[t].route)[thr[t].pc]
    ELSE "none"

sequential ==
    <<db0, maxresults, defaultfields, nreq, route, pc, user, identifier, json,
      view_args, args, qargs, hookfails, g, obj, results, log, resp, prev>>

\* the thread t is handed a request for the route r: cls.set_g()
ServeIn(t, r) ==
    /\ thr[t].pc = 0
    /\ ~thr[t].served
    /\ r \in ThreadRoutes
    /\ \E i \in {1, 2}, j \in (IF r = "put" THEN ThreadPayloads ELSE {EmptyDict}) :
          /\ thr' = [thr EXCEPT ![t] =
                        [Idle EXCEPT !.route = r, !.pc = 1, !.served = TRUE,
                                     !.identifier = i, !.json = j,
                                     !.log = <<Call("set_g")>>]]
          /\ appctx' = [appctx EXCEPT ![context_of(t)] = set_g(j)]
    /\ UNCHANGED <<db, sequential, registration>>

GetObjByIdIn(t) ==
    /\ StepOf(t) = "get_obj_by_id"
    /\ \E a \in ThreadArgs :
        LET c == context_of(t)
            o == get_obj_by_id(db, thr[t].identifier, thr[t].route)
            fields == get_included_fields(appctx[c], a, defaultfields)
        IN  /\ appctx' = [appctx EXCEPT ![context_of(t)].cached_included_fields = <<fields>>]
            /\ thr' = [thr EXCEPT ![t].args = a,
                                  ![t].obj = o,
                                  ![t].log = Append(@, Call("get_obj_by_id")),
                                  ![t].pc = IF o.st = "none" THEN 0 ELSE @ + 1,
                                  ![t].resp = IF o.st = "none" THEN Error(404) ELSE @]
    /\ UNCHANGED <<db, sequential, registration>>

AuthorizeIn(t) ==
    /\ StepOf(t) = "authorize"
    /\ LET r == authorize(thr[t].route, Anyone, thr[t].obj, thr[t].log)
       IN  thr' = [thr EXCEPT ![t].log = r.log,
                              ![t].pc = IF r.ok THEN @ + 1 ELSE 0,
                              ![t].resp = IF r.ok THEN @ ELSE Error(403)]
    /\ UNCHANGED <<db, appctx, sequential, registration>>

AutoUpdateIn(t) ==
    /\ StepOf(t) = "auto_update"
    /\ LET c == context_of(t)
           m == auto_update([obj |-> thr[t].obj, failed |-> appctx[c].failed_validation,
                             log |-> Append(thr[t].log, Call("auto_update"))],
                            appctx[c].fields, EmptyDict)
       IN  /\ appctx' = [appctx EXCEPT ![context_of(t)].failed_validation = m.failed]
           /\ thr' = [thr EXCEPT ![t].obj = m.obj, ![t].log = m.log, ![t].pc = @ + 1]
    /\ UNCHANGED <<db, sequential, registration>>

BeforeReturnIn(t) ==
    /\ StepOf(t) = "before_return"
    /\ LET c == context_of(t)
           m == before_return(thr[t].route,
                              [obj |-> thr[t].obj, failed |-> appctx[c].failed_validation,
                               log |-> thr[t].log],
                              "object", <<thr[t].obj>>, FALSE)
       IN  /\ appctx' = [appctx EXCEPT ![context_of(t)].failed_validation = m.failed]
           /\ thr' = [thr EXCEPT ![t].log = m.log, ![t].pc = @ + 1]
    /\ UNCHANGED <<db, sequential, registration>>

CheckFailedIn(t) ==
    /\ StepOf(t) = "check_failed"
    /\ LET failed == appctx[context_of(t)].failed_validation
       IN  thr' = [thr EXCEPT ![t].log = Append(@, Call("check_failed")),
                              ![t].pc = IF failed THEN 0 ELSE @ + 1,
                              ![t].resp = IF failed THEN Error(400) ELSE @]
    /\ UNCHANGED <<db, appctx, sequential, registration>>

CommitIn(t) ==
    /\ StepOf(t) = "commit"
    /\ db' = committed(thr[t].obj, db)
    /\ thr' = [thr EXCEPT ![t].obj = flushed(thr[t].obj, db),
                          ![t].log = Append(@, Call("commit")),
                          ![t].pc = @ + 1]
    /\ UNCHANGED <<appctx, sequential, registration>>

JsonifyObjIn(t) ==
    /\ StepOf(t) = "jsonify_obj"
    /\ LET c == context_of(t)
           fields == get_included_fields(appctx[c], thr[t].args, defaultfields)
       IN  /\ appctx' = [appctx EXCEPT ![context_of(t)].cached_included_fields = <<fields>>]
           /\ thr' = [thr EXCEPT ![t].log = Append(@, Call("as_dict")),
                                 ![t].pc = 0,
                                 ![t].resp = Response(success_status(thr[t].route),
                                                      as_dict(thr[t].obj, fields),
                                                      <<>>, 0, FALSE)]
    /\ UNCHANGED <<db, sequential, registration>>

ThreadsNext ==
    \E t \in Threads :
        \/ \E r \in ThreadRoutes : ServeIn(t, r)
        \/ GetObjByIdIn(t)
        \/ AuthorizeIn(t)
        \/ AutoUpdateIn(t)
        \/ BeforeReturnIn(t)
        \/ CheckFailedIn(t)
        \/ CommitIn(t)
        \/ JsonifyObjIn(t)

ThreadsSpec == Init /\ [][ThreadsNext]_vars

-----------------------------------------------------------------------------
(* Registration: one call of register(app, subdomain) on a class            *)

\* register is about to be called on some class, with a new application
Unregistered ==
    /\ Unserved
    /\ cls \in Classes
    /\ \E prefix \in Prefixes : app = NewApp(prefix)
    /\ \E sub \in Subdomains : reg = Called(sub)

\* the test of register with APIMixin left out of the tuple
reserved_router_only(c) == c.kind = "Router"

\* cls in (Router, APIMixin)
reserved(c) == c.kind \in {"Router", "APIMixin"}

\* the head of register: the reserved base classes are refused, the subdomain
\* of the application stands in for one that was not given
Register ==
    /\ reg.pc = "call"
    /\ reg' = IF reserved(cls)
              THEN [reg EXCEPT !.pc = "raised"]
              ELSE [reg EXCEPT !.pc = "routes", !.i = 1,
                               !.subdomain = IF ~Truthy(reg.subdomain)
                                             THEN app.subdomain ELSE @]
    /\ UNCHANGED <<cls, app, db, sequential, conc>>

\* one turn of the loop over inspect.getmembers(cls)
AddUrlRules ==
    /\ reg.pc = "routes"
    /\ reg.i <= Len(RouteMembers)
    /\ LET st == add_member(cls, RouteMembers[reg.i], app.prefix,
                            [subdomain |-> reg.subdomain, rules |-> app.rules])
       IN  /\ app' = [app EXCEPT !.rules = st.rules]
           /\ reg' = [reg EXCEPT !.i = @ + 1, !.subdomain = st.subdomain]
    /\ UNCHANGED <<cls, db, sequential, conc>>

\* Router.register returns to APIMixin.register
ReturnToAPIMixin ==
    /\ reg.pc = "routes"
    /\ reg.i > Len(RouteMembers)
    /\ reg' = [reg EXCEPT !.pc = "registries"]
    /\ UNCHANGED <<cls, app, db, sequential, conc>>

\* the rest of APIMixin.register: __security__, __infos__, __defaultfields__ ...
BuildRegistries ==
    /\ reg.pc = "registries"
    /\ reg' = [reg EXCEPT !.pc = "done", !.built = TRUE]
    /\ UNCHANGED <<cls, app, db, sequential, conc>>

RegistrationNext ==
    \/ Register
    \/ AddUrlRules
    \/ ReturnToAPIMixin
    \/ BuildRegistries

RegistrationSpec == Unregistered /\ [][RegistrationNext]_vars

-----------------------------------------------------------------------------
(* What the properties below speak of *)

\* a response has been returned for the current request
Answered == pc = 0 /\ nreq > 0

\* the checks the class binds to the route of the current request
BoundChecks == {c \in CheckNames : route \in CheckDecls[c]}

\* the identifier of the current request names no row its route can see
Missed ==
    /\ route \in {"get", "put", "delete"}
    /\ \/ db0[identifier].st = "none"
       \/ route = "get" /\ db0[identifier].title = "draft"

\* the current request got as far as its authorization
ReachedAuthorization == nreq > 0 /\ ~Missed

\* the calls of one kind made so far, as the sequence of their events
Made(ev) == SelectSeq(log, LAMBDA e : e.ev = ev)

FailedSetters == {i \in DOMAIN log : log[i].ev = "setter" /\ ~log[i].ok}

\* _auto_update has run on the object of the current request
Mutated == route \in {"post", "put"} /\ Events(log, "auto_update") # {}

\* the object before _auto_update
Original == IF route = "post" THEN construct ELSE db0[identifier]

-----------------------------------------------------------------------------
(* C1 *)

\* C1: on get, put and delete, an identifier that resolves to no object is
\* answered 404 and never 403, whatever the bound checks would return, and no
\* authorization check is invoked on that request.
C1_ResolutionPrecedesAuthorization ==
    Missed =>
        /\ Events(log, "check") = {}
        /\ resp.status \in {0, 404}
        /\ Answered => resp.status = 404

\* a put on a missing identifier by a user the checks would refuse, answered 404
C1_Witness ==
    /\ Answered
    /\ route = "put"
    /\ Missed
    /\ ~user["authorize_changes"]
    /\ resp.status = 404

-----------------------------------------------------------------------------
(* C2 *)

\* C2: if a setter flags a validation failure during a post or put (by raising
\* ValueError/AssertionError or by setting the flag itself), the response is
\* 400 and neither add nor commit is called: the table is left as it was.
C2_FailedValidationNotPersisted ==
    (route \in {"post", "put"} /\ FailedSetters # {}) =>
        /\ Events(log, "add") = {}
        /\ Events(log, "commit") = {}
        /\ db = db0
        /\ resp.status \in {0, 400}
        /\ Answered => resp.status = 400

\* a put whose setter raised after another field was set in memory: answered
\* 400 with the row in the table still holding its title
C2_Witness ==
    /\ Answered
    /\ route = "put"
    /\ \E i \in FailedSetters : log[i].val = "bad"
    /\ obj.title = "x"
    /\ db[obj.id].title # "x"
    /\ resp.status = 400

-----------------------------------------------------------------------------
(* C3 *)

AfterAuthorization ==
    {"auto_update", "setter", "hook", "check_failed", "get_results", "add", "delete",
     "commit", "as_dict"}

\* C3: a route passes authorization only if every check bound to its name
\* returns true; if a bound check returns false the response is 403 and no
\* setter is invoked, no pre-return hook runs and nothing is added, deleted or
\* committed on that request.
C3_AuthorizationGuardsThePipeline ==
    /\ (ReachedAuthorization /\ \E c \in BoundChecks : ~user[c]) =>
            /\ \A i \in DOMAIN log : log[i].ev \notin AfterAuthorization
            /\ db = db0
            /\ resp.status \in {0, 403}
            /\ Answered => resp.status = 403
    /\ ((\E i \in DOMAIN log : log[i].ev \in AfterAuthorization)
            \/ resp.status \in {200, 201, 204, 400, 500}) =>
            \A c \in BoundChecks :
                /\ user[c]
                /\ \E i \in Events(log, "check") : log[i].name = c /\ log[i].ok

\* a put on an existing row refused by the second of its two checks only
C3_Witness ==
    /\ Answered
    /\ route = "put"
    /\ ~Missed
    /\ user["authorize_changes"]
    /\ ~user["authorize_owner"]
    /\ resp.status = 403

-----------------------------------------------------------------------------
(* C4 *)

\* the fields the class declares with public=False, by their declarations
PrivateFields ==
    {n \in ColumnNames : ~Updated(columndefaults, ColumnDecls[n].info).public}
    \cup {n \in RelationshipNames :
            ~Updated(relationshipdefaults, RelationshipDecls[n].info).public}
    \cup {n \in DOMAIN ExtraDecls : ~Updated(columndefaults, ExtraDecls[n]).public}

\* C4: a field declared public=False is totally unavailable to the user: on
\* index, get, post and put, whatever only, include and defer say, no
\* serialized object has a key for a column or relationship that is private.
C4_PrivateFieldsNeverSerialized ==
    route \in {"index", "get", "post", "put"} =>
        /\ DOMAIN resp.body \cap PrivateFields = {}
        /\ \A i \in DOMAIN resp.results : DOMAIN resp.results[i] \cap PrivateFields = {}

-----------------------------------------------------------------------------
(* C5 *)

\* the key a sort rule names
SortKey(rule) == IF rule[1] = "-" THEN rule[2] ELSE rule[1]

DeclaredIndexed == {n \in ColumnNames : ColumnDecls[n].indexed}

\* C5: on index, a sort parameter naming a key that is no indexed field of the
\* model (a column without index, an attribute that is no column, an unknown
\* name) is answered 400. Read on requests that pass authorization.
C5_UnindexedSortKeyIs400 ==
    (/\ Answered
     /\ route = "index"
     /\ \A c \in BoundChecks : user[c]
     /\ \E i \in DOMAIN qargs.sort :
            qargs.sort[i] # <<>> /\ SortKey(qargs.sort[i]) \notin DeclaredIndexed)
        => resp.status = 400

-----------------------------------------------------------------------------
(* C6, C7 *)

\* the rows the query of the current index request matches
Matching ==
    {i \in Ids : /\ db[i].st # "none"
                 /\ db[i].title # "draft"
                 /\ qargs.id # <<>> => i \in Range(qargs.id)}

RequestedPage == IF qargs.page = <<>> THEN 1 ELSE qargs.page[1]

\* C6: on index, a per_page above the maximum page size the model configures is
\* answered 400; a per_page within it returns at most per_page items, has_next
\* being true iff more rows remain. Read on requests that pass authorization.
C6_PageSizeCap ==
    (Answered /\ route = "index" /\ (\A c \in BoundChecks : user[c])
        /\ qargs.per_page # <<>>) =>
        IF maxresults # <<>> /\ qargs.per_page[1] > maxresults[1]
        THEN resp.status = 400
        ELSE resp.status = 200 =>
                /\ Len(resp.results) <= qargs.per_page[1]
                /\ resp.has_next <=>
                        RequestedPage * qargs.per_page[1] < Cardinality(Matching)

\* C7 as stated: on index without per_page the response holds all the rows
\* matching the query and has_next is false, for every model, those that
\* configure a maximum page size included.
C7_NoPerPageReturnsAll ==
    (Answered /\ route = "index" /\ resp.status = 200 /\ qargs.per_page = <<>>) =>
        /\ Range(results[1]) = Matching
        /\ Len(resp.results) = Cardinality(Matching)
        /\ ~resp.has_next

\* C7 as amended: on index without per_page the page size defaults to the
\* maximum the model configures: a model that configures none returns all the
\* rows matching the query with has_next false; a model that configures one
\* returns the requested page of at most that many rows, has_next being true
\* iff more matching rows remain after that page.
C7_NoPerPageDefaultsToMaximum ==
    (Answered /\ route = "index" /\ resp.status = 200 /\ qargs.per_page = <<>>) =>
        IF maxresults = <<>>
        THEN /\ Range(results[1]) = Matching
             /\ Len(resp.results) = Cardinality(Matching)
             /\ ~resp.has_next
        ELSE /\ Range(results[1]) \subseteq Matching
             /\ Len(resp.results) = Len(results[1])
             /\ Len(resp.results) <= maxresults[1]
             /\ resp.has_next <=> RequestedPage * maxresults[1] < Cardinality(Matching)

\* an index request without per_page on the class with a maximum: fewer rows
\* than match, and has_next set
C7_Witness ==
    /\ Answered
    /\ route = "index"
    /\ resp.status = 200
    /\ qargs.per_page = <<>>
    /\ maxresults # <<>>
    /\ Len(resp.results) < Cardinality(Matching)
    /\ resp.has_next

-----------------------------------------------------------------------------
(* C8 *)

DeclaredSetBy(n) == Updated(columndefaults, ColumnDecls[n].info).set_by

\* the columns kept in the objects of the model
Kept == ColumnNames \cap DOMAIN NoObj

\* C8: during the mutation of post and put only fields settable by the client
\* payload are set from the payload: a payload key naming a field set by url, by
\* the server or by nobody, or naming no column, never changes the object, and
\* a client-payload field absent from the payload is left unchanged.
C8_OnlyJsonFieldsSetFromPayload ==
    Mutated =>
        /\ \A i \in Events(log, "setter") :
              IF DeclaredSetBy(log[i].name) = "json"
              THEN log[i].name \in DOMAIN json /\ log[i].val = json[log[i].name]
              ELSE IF DeclaredSetBy(log[i].name) = "url"
              THEN log[i].name \in DOMAIN view_args /\ log[i].val = view_args[log[i].name]
              ELSE log[i].val = "None"
        /\ \A n \in Kept \ {"id"} :
              CASE DeclaredSetBy(n) = "json" ->
                      n \notin DOMAIN json => obj[n] = Original[n]
                [] DeclaredSetBy(n) = "url" ->
                      obj[n] = IF n \in DOMAIN view_args THEN view_args[n] ELSE Original[n]
                [] DeclaredSetBy(n) = "server" ->
                      obj[n] \in {Original[n], "srv"}
                [] OTHER -> obj[n] = Original[n]
        /\ \A n \in DOMAIN obj \ {"id", "st"} :
              n \notin Kept => obj[n] = Original[n]

\* a put carrying keys of url, server and unknown fields besides two json
\* fields: answered 200 with none of those values in the object
C8_Witness ==
    /\ Answered
    /\ route = "put"
    /\ resp.status = 200
    /\ {"owner", "stamp", "images", "nope", "title"} \subseteq DOMAIN json
    /\ obj.title = json["title"]
    /\ obj.owner # json["owner"]
    /\ obj.stamp # json["stamp"]

-----------------------------------------------------------------------------
(* C9 *)

ServerOnly == {n \in ColumnNames : DeclaredSetBy(n) = "server"}

HasSetter(n) == \E s \in DOMAIN SetterDecls : n \in SetterDecls[s]

-----------------------------------------------------------------------------
(* C10 *)

\* the columns whose setter a post or put is to call, in the order of the columns
Due ==
    SelectNames(Columns,
        {n \in ColumnNames :
            \/ DeclaredSetBy(n) = "json" /\ n \in DOMAIN json
            \/ DeclaredSetBy(n) = "url" /\ n \in DOMAIN view_args
            \/ DeclaredSetBy(n) = "server" /\ HasSetter(n)})

BoundHooks == {h \in DOMAIN BeforeDecls : route \in BeforeDecls[h]}

\* C10: a validation failure of a setter does not abort the pipeline: the
\* setters of the remaining fields are still invoked, every pre-return hook
\* bound to the route still runs and is given the in-memory object, and the
\* failure flag is checked exactly once, after the hooks and before anything
\* is persisted.
C10_FailureDoesNotAbortThePipeline ==
    /\ (Mutated /\ FailedSetters # {}) =>
          /\ [i \in 1 .. Len(Made("setter")) |-> Made("setter")[i].name] = Due
          /\ Events(log, "check_failed") # {} =>
                /\ {log[i].name : i \in Events(log, "hook")} = BoundHooks
                /\ \A i \in Events(log, "hook") :
                      /\ log[i].kind = "object"
                      /\ log[i].seen = <<obj>>
                      /\ \A j \in Events(log, "setter") : j < i
                      /\ \A j \in Events(log, "check_failed") : i < j
          /\ Answered => Cardinality(Events(log, "check_failed")) = 1
    /\ route \in {"post", "put", "delete"} =>
          /\ Cardinality(Events(log, "check_failed")) <= 1
          /\ \A j \in Events(log, "add") \cup Events(log, "delete") \cup Events(log, "commit") :
                \E i \in Events(log, "check_failed") : i < j

\* a put whose theme is refused after its title was set: the setter of stamp
\* still ran, the hooks saw the new title, and the answer is 400
C10_Witness ==
    /\ Answered
    /\ route = "put"
    /\ resp.status = 400
    /\ \E i \in FailedSetters :
          /\ log[i].name = "theme"
          /\ \E j \in Events(log, "setter") : j > i /\ log[j].name = "stamp"
    /\ \E i \in Events(log, "hook") :
          log[i].seen[1].title = "x" /\ db[obj.id].title # "x"

-----------------------------------------------------------------------------
(* C11 *)

\* the names of the hooks called so far, in the order of the calls
HooksCalled == [i \in 1 .. Len(Made("hook")) |-> Made("hook")[i].name]

\* the current request is past its call of _before_return
HooksRan ==
    \/ Events(log, "check_failed") # {}
    \/ route = "meta" /\ Answered /\ resp.status = 200

\* the rows _get_results handed to index
Listed == [i \in 1 .. Len(results[1]) |-> db[results[1][i]]]

\* the hook was handed the object of the request (which the session may since
\* have given an identity or marked deleted)
GivenObject(e) ==
    /\ Len(e.seen) = 1
    /\ \A k \in DOMAIN obj \ {"st", "id"} : e.seen[1][k] = obj[k]

\* C11 as stated: the hooks bound to the route are all invoked, in the order in
\* which the model declares them, each receiving the resolved or created
\* object, or none for index and meta.
C11_HooksInDeclarationOrder ==
    /\ HooksRan => HooksCalled = SelectNames(BeforeOrder, BoundHooks)
    /\ \A i \in Events(log, "hook") :
          IF route \in {"index", "meta"}
          THEN log[i].kind = "none"
          ELSE log[i].kind = "object" /\ GivenObject(log[i])

\* C11 as amended: the hooks bound to the route are all invoked, in the
\* alphabetical order of their method names, each receiving the resolved or
\* created object, the list of the result objects for index, none for meta.
C11_HooksInMemberOrder ==
    /\ HooksCalled \in {<<>>, SelectNames(getmembers, BoundHooks)}
    /\ HooksRan => HooksCalled = SelectNames(getmembers, BoundHooks)
    /\ \A i \in Events(log, "hook") :
          CASE route = "index" -> log[i].kind = "list" /\ log[i].seen = Listed
            [] route = "meta" -> log[i].kind = "none" /\ log[i].seen = <<>>
            [] OTHER -> log[i].kind = "object" /\ GivenObject(log[i])

\* a put whose two hooks ran in the reverse of their declaration, each given
\* the updated object
C11_Witness ==
    /\ Answered
    /\ route = "put"
    /\ resp.status = 200
    /\ HooksCalled = <<"audit", "notify">>
    /\ SelectNames(BeforeOrder, BoundHooks) = <<"notify", "audit">>
    /\ \A i \in Events(log, "hook") : GivenObject(log[i]) /\ log[i].seen[1].title = "x"

-----------------------------------------------------------------------------
(* C12 *)

Persisting == Events(log, "add") \cup Events(log, "delete") \cup Events(log, "commit")

\* the status of the success path of each writing route
SuccessOf(r) == IF r = "post" THEN 201 ELSE IF r = "put" THEN 200 ELSE 204

\* C12: every request calls the storage commit at most once, and only on the
\* success path of post, put and delete (201, 200, 204); index, get and meta
\* requests, and every request ending in 400, 403 or 404, call none of add,
\* delete or commit, and leave the table as it was.
C12_NoPartialWrites ==
    /\ Cardinality(Events(log, "commit")) <= 1
    /\ Events(log, "commit") # {} =>
          /\ route \in {"post", "put", "delete"}
          /\ resp.status \in {0, SuccessOf(route)}
          /\ Answered => resp.status = SuccessOf(route)
    /\ Events(log, "add") # {} => route = "post"
    /\ Events(log, "delete") # {} => route = "delete"
    /\ (route \in {"index", "get", "meta"} \/ resp.status \in {400, 403, 404}) =>
          Persisting = {} /\ db = db0
    /\ db # db0 => Events(log, "commit") # {}

\* a delete answered 204 after its one commit, the row gone from the table
C12_Witness ==
    /\ Answered
    /\ route = "delete"
    /\ resp.status = 204
    /\ Cardinality(Events(log, "commit")) = 1
    /\ db0[identifier].st = "persistent"
    /\ db[identifier].st = "none"

-----------------------------------------------------------------------------
(* C13 *)

\* the fields of the model's descriptor map, and its default-visible ones, by
\* the declarations of the class
Known ==
    ColumnNames \cup RelationshipNames
    \cup {n \in DOMAIN ExtraDecls : Updated(columndefaults, ExtraDecls[n]).public}

DeclaredInfo(n) ==
    IF n \in ColumnNames THEN Updated(columndefaults, ColumnDecls[n].info)
    ELSE IF n \in RelationshipNames
         THEN Updated(relationshipdefaults, RelationshipDecls[n].info)
    ELSE Updated(columndefaults, ExtraDecls[n])

DefaultVisible == {n \in Known : DeclaredInfo(n).public /\ ~DeclaredInfo(n).defer}

\* the field set the parameters a ask for
ResolvedFrom(a) ==
    IF a.only # <<>> THEN Range(a.only) \cap Known
    ELSE (DefaultVisible \cup (Range(a.include) \cap Known)) \ Range(a.defer)

\* the field set the parameters of the current request ask for
Resolved == ResolvedFrom(args)

\* the objects serialized in the response
Serialized ==
    IF resp.status \in {200, 201} /\ route \in {"get", "post", "put"}
    THEN {resp.body} \cup Range(resp.results)
    ELSE Range(resp.results)

\* C13: the field set of a request is the only-list intersected with the known
\* fields when only is given, else the default-visible set, union the known
\* fields of the include-list, minus the defer-list; it is resolved once per
\* request, every object serialized in the request has exactly its fields, and
\* the default-visible set of the model is never modified by the resolution.
C13_FieldSetResolution ==
    /\ g.cached_included_fields # <<>> => g.cached_included_fields[1] = Resolved
    /\ \A d \in Serialized : DOMAIN d = Resolved
    /\ defaultfields = DefaultVisible

\* an index answered with two rows, include and defer given: both rows carry
\* the same fields, which are not the default ones
C13_Witness ==
    /\ Answered
    /\ route = "index"
    /\ resp.status = 200
    /\ Len(resp.results) = 2
    /\ args.only = <<>> /\ args.include # <<>> /\ args.defer # <<>>
    /\ \A i \in 1 .. 2 : DOMAIN resp.results[i] = Resolved
    /\ "body" \in Resolved /\ "title" \notin Resolved /\ "nope" \notin Resolved
    /\ Resolved # DefaultVisible

-----------------------------------------------------------------------------
(* C14 *)

AnsweredIn(t) == thr[t].served /\ thr[t].pc = 0

\* the payload of the request of t has a value its own setter refuses
OwnFailure(t) ==
    /\ thr[t].route = "put"
    /\ "theme" \in DOMAIN thr[t].json
    /\ thr[t].json["theme"] \in {"bad", "dup"}

RefusedIn(t) == {i \in Events(thr[t].log, "setter") : ~thr[t].log[i].ok}

\* C14: the request context is never shared across requests: with two
\* requests handled concurrently, in any interleaving of their stages, a
\* validation failure flagged in one never causes a 400 or suppresses the
\* commit in the other, and the payload and the memoized field set a request
\* reads are the ones that request created.
C14_ContextNotShared ==
    \A t \in Threads :
        /\ AnsweredIn(t) => (thr[t].resp.status = 400 <=> OwnFailure(t))
        /\ (AnsweredIn(t) /\ thr[t].route = "put" /\ ~OwnFailure(t)) =>
              /\ thr[t].resp.status = 200
              /\ Cardinality(Events(thr[t].log, "commit")) = 1
        /\ OwnFailure(t) => Events(thr[t].log, "commit") = {}
        /\ \A i \in Events(thr[t].log, "setter") :
              LET e == thr[t].log[i]
              IN  DeclaredSetBy(e.name) = "json" =>
                      e.name \in DOMAIN thr[t].json /\ e.val = thr[t].json[e.name]
        /\ (Events(thr[t].log, "auto_update") # {} /\ "title" \in DOMAIN thr[t].json) =>
              thr[t].obj.title = thr[t].json["title"]
        /\ thr[t].resp.status = 200 =>
              DOMAIN thr[t].resp.body = ResolvedFrom(thr[t].args)

\* one put answered 200 after its commit while another, with another payload
\* and other parameters, is still being served with its failure flagged
C14_Witness ==
    /\ thr["a"].route = "put" /\ thr["a"].pc > 0
    /\ RefusedIn("a") # {}
    /\ appctx["a"].failed_validation
    /\ thr["b"].route = "put" /\ AnsweredIn("b")
    /\ thr["b"].resp.status = 200
    /\ Events(thr["b"].log, "commit") # {}
    /\ thr["b"].args # thr["a"].args
    /\ db[thr["b"].identifier].title = "x"

-----------------------------------------------------------------------------
(* C15 *)

RECURSIVE Words(_, _)
\* the words of a path: what stands between its separators, empty words left
\* out; w is the word being read
Words(s, w) ==
    IF s = <<>> THEN (IF w = <<>> THEN <<>> ELSE <<w>>)
    ELSE IF Head(s) = "/" THEN (IF w = <<>> THEN <<>> ELSE <<w>>) \o Words(Tail(s), <<>>)
    ELSE Words(Tail(s), Append(w, Head(s)))

RECURSIVE Path(_)
\* the path of the words ws: a separator before each, none after the last
Path(ws) == IF ws = <<>> THEN <<>> ELSE <<"/">> \o Head(ws) \o Path(Tail(ws))

\* an optional string as a string
Text(x) == IF x = <<>> THEN <<>> ELSE x[1]

\* the base path of the class: the override, else the table name, else the
\* name of the class in lower case
BasePath ==
    IF cls.routebase # <<>> THEN cls.routebase[1]
    ELSE IF cls.tablename # <<>> THEN cls.tablename[1]
    ELSE [i \in DOMAIN cls.name |->
            IF cls.name[i] = "A" THEN "a" ELSE IF cls.name[i] = "B" THEN "b" ELSE cls.name[i]]

\* the rule made of a prefix, the base path and a fragment
Concatenated(prefix, fragment) ==
    Path(Words(prefix, <<>>) \o Words(BasePath, <<>>) \o Words(fragment, <<>>))

\* C15 as stated: every built rule is the concatenation of the global route
\* prefix (if configured), the base path of the model and the fragment of the
\* route, runs of separators collapsed to one and no separator at the end.
C15_RuleFromGlobalPrefix ==
    \A k \in DOMAIN app.rules :
        app.rules[k].rule = Concatenated(Text(app.prefix), app.rules[k].declared.rule)

\* C15 as amended: every built rule is the concatenation of the route prefix
\* (the one the class sets for itself if it sets one, else the global one if
\* configured), the base path of the model and the fragment of the route, runs
\* of separators collapsed to one and no separator at the end.
C15_RuleFromClassOrGlobalPrefix ==
    \A k \in DOMAIN app.rules :
        /\ app.rules[k].rule =
              Concatenated(IF cls.routeprefix # <<>> /\ cls.routeprefix[1] # <<>>
                           THEN cls.routeprefix[1] ELSE Text(app.prefix),
                           app.rules[k].declared.rule)
        /\ \A i \in 1 .. Len(app.rules[k].rule) - 1 :
              ~(app.rules[k].rule[i] = "/" /\ app.rules[k].rule[i + 1] = "/")
        /\ app.rules[k].rule # <<>> =>
              app.rules[k].rule[1] = "/" /\ app.rules[k].rule[Len(app.rules[k].rule)] # "/"

\* a rule built from a prefix, a base and a fragment that all have doubled
\* and trailing separators
C15_Witness ==
    /\ reg.pc = "done"
    /\ cls.routeprefix = <<>>
    /\ app.prefix = <<<<"/", "v", "/", "/", "w", "/">>>>
    /\ cls.routebase = <<<<"b", "/", "/", "d">>>>
    /\ \E k \in DOMAIN app.rules :
          /\ app.rules[k].declared.rule = <<"/", "/", "n", "/">>
          /\ app.rules[k].rule = <<"/", "v", "/", "w", "/", "b", "/", "d", "/", "n">>

-----------------------------------------------------------------------------
(* C16 *)

\* C16: register called on a reserved base class (Router or APIMixin
\* themselves) is refused with an error before any route rule is added to the
\* application and before any registry of the class is built.
C16_ReservedClassRejected ==
    /\ cls.kind \in {"Router", "APIMixin"} =>
          /\ reg.pc \in {"call", "raised"}
          /\ app.rules = <<>>
          /\ ~reg.built
    /\ reg.pc = "raised" => cls.kind \in {"Router", "APIMixin"}

\* register called on APIMixin itself has raised, the application without rules
C16_Witness ==
    /\ cls.kind = "APIMixin"
    /\ reg.pc = "raised"
    /\ app.rules = <<>>
    /\ ~reg.built

-----------------------------------------------------------------------------
(* C17 *)

\* every field the class declares: columns, relationships, extra fields
Declared == ColumnNames \cup RelationshipNames \cup DOMAIN ExtraDecls

\* the declared fields whose resolved visibility is public and that are not
\* deferred
PublicUndeferred ==
    {n \in Declared : DeclaredInfo(n).public /\ ~DeclaredInfo(n).defer}

\* C17: after registration a field (column, relationship or extra field) is in
\* the default-visible set of the model iff its resolved visibility is public
\* and it is not deferred; and a get without query parameters returns exactly
\* the fields of that set.
C17_DefaultVisibleSet ==
    /\ \A n \in Declared : n \in defaultfields <=> n \in PublicUndeferred
    /\ defaultfields \subseteq Declared
    /\ (Answered /\ route = "get" /\ resp.status = 200 /\ args = NoArgs) =>
          DOMAIN resp.body = PublicUndeferred

\* a get without parameters answered with the public relationship that is not
\* deferred and the plain extra field, and with no deferred or private field
C17_Witness ==
    /\ Answered
    /\ route = "get"
    /\ resp.status = 200
    /\ args = NoArgs
    /\ {"title", "author", "summary"} \subseteq DOMAIN resp.body
    /\ DOMAIN resp.body \cap {"body", "secret", "posts", "project", "preview", "hidden"} = {}

-----------------------------------------------------------------------------
(* C18 *)

\* the rules of the application that were given no endpoint at their declaration
Generated == {k \in DOMAIN app.rules : app.rules[k].declared.options.endpoint = <<>>}

\* the number of paths declared on the method behind the rule k
PathsOf(k) == Len(rule_cache(cls, app.rules[k].view))

\* "<ModelName>:<method>" for the rule k
PlainName(k) == cls.name \o <<":">> \o Chars(app.rules[k].view)

\* every rule is registered under the name the naming scheme gives it
NamedByScheme ==
    \A k \in DOMAIN app.rules :
        app.rules[k].endpoint =
            IF k \notin Generated THEN app.rules[k].declared.options.endpoint[1]
            ELSE IF PathsOf(k) = 1 THEN PlainName(k)
            ELSE PlainName(k) \o <<"_">> \o Decimal(app.rules[k].idx)

\* C18: a route with a declared endpoint name is registered under that name;
\* otherwise a method with exactly one path is registered as
\* "<ModelName>:<method>"; otherwise each path of the method gets that name
\* with a numeric suffix following the order of declaration; so that all the
\* endpoint names generated for one model are pairwise distinct.
C18_EndpointNaming ==
    /\ NamedByScheme
    /\ \A j, k \in Generated : j # k => app.rules[j].endpoint # app.rules[k].endpoint

-----------------------------------------------------------------------------
(* C19 *)

\* two objects agree on every field a setter of the server does not write
SameButServerOnly(a, b) ==
    /\ DOMAIN a = DOMAIN b
    /\ \A f \in DOMAIN a \ ServerOnly : a[f] = b[f]

\* C19: the same put payload issued twice in succession on the same object
\* yields the same response status and the same serialized object both times,
\* and the persisted object after the second put equals the one after the
\* first (fields written by the server alone left aside).
C19_PutIdempotent ==
    (prev.taken /\ Answered /\ args = prev.args) =>
        /\ resp.status = prev.resp.status
        /\ SameButServerOnly(resp.body, prev.resp.body)
        /\ \A i \in Ids : SameButServerOnly(db[i], prev.db[i])

\* a put that changed the title of a row, answered 200 twice with the same
\* object, the second time starting from the row the first one wrote
C19_Witness ==
    /\ prev.taken
    /\ Answered
    /\ args = prev.args
    /\ resp.status = 200 /\ prev.resp.status = 200
    /\ "title" \in DOMAIN json
    /\ InitialTable[identifier].title # json["title"]
    /\ db0[identifier].title = json["title"]
    /\ "title" \in DOMAIN resp.body
    /\ resp.body = prev.resp.body
    /\ db = prev.db

-----------------------------------------------------------------------------
(* C20 *)

\* the rules registered for the method name
RulesOf(name) == {k \in DOMAIN app.rules : app.rules[k].view = name}

\* the loop of register over the members is over
Routed == reg.pc \in {"registries", "done"}

\* C20: a built-in route (index, get, post, put, delete, meta) is registered
\* for a model iff its name is in the list of routes the model opts into,
\* while every custom declared route is registered whatever that list says.
C20_RouteOptIn ==
    /\ \A k \in DOMAIN app.rules :
          app.rules[k].view \in cls.autoroutes \cup DOMAIN cls.custom
    /\ Routed =>
          /\ \A r \in {"index", "get", "post", "put", "delete", "meta"} :
                RulesOf(r) # {} <=> r \in cls.autoroutes
          /\ \A m \in DOMAIN cls.custom :
                /\ Cardinality(RulesOf(m)) = Len(cls.custom[m])
                /\ \A i \in DOMAIN cls.custom[m] :
                      \E k \in RulesOf(m) : app.rules[k].declared = cls.custom[m][i]

\* a class that opts into get alone and declares two custom routes:
\* registered with get, login and me, and none of the five other built-ins
C20_Witness ==
    /\ reg.pc = "done"
    /\ cls.autoroutes = {"get"}
    /\ cls.custom = NamedRoutes
    /\ {app.rules[k].view : k \in DOMAIN app.rules} = {"get", "login", "me"}
    /\ Len(app.rules) = 4

-----------------------------------------------------------------------------
(* C21 *)

\* the subdomain passed to register, or else the one of the application
PassedSubdomain == IF Truthy(reg.given) THEN reg.given ELSE app.subdomain

\* the subdomain the rule k was declared with
DeclaredSubdomain(k) == app.rules[k].declared.options.subdomain

\* C21: during the registration of one model each rule is registered with the
\* subdomain passed to register (or the one of the application), else with
\* the subdomain the rule itself declares, else with none: a subdomain declared
\* on one route never applies to another route of the model that declared none.
C21_SubdomainPerRule ==
    \A k \in DOMAIN app.rules :
        app.rules[k].subdomain =
            IF Truthy(PassedSubdomain) THEN PassedSubdomain
            ELSE IF Truthy(DeclaredSubdomain(k)) THEN DeclaredSubdomain(k)
            ELSE <<>>

====
